---------------------------- MODULE Spec2Model ----------------------------
(***************************************************************************)
(* A model of GenerativeValueLearning (GVL): the string-path GeminiVLM      *)
(* (src/GVL/src/vlm.py) with its Prompt (src/GVL/src/prompt.py), the frame  *)
(* sampler and encoder (src/GVL/src/helpers.py), the message-list          *)
(* BaseVLM.prepare_request (src/GVL/vlm.py) and the ValueGenerator facade   *)
(* (src/GVL/ValueGenerator.py).                                             *)
(*                                                                         *)
(* Text is a sequence of tokens.  A token is one character ("[", "%", a     *)
(* digit, a blank) or an indivisible run of letters; the two phrases the    *)
(* parser splits on, "Description:" and "Task Completion Percentages:",     *)
(* are single tokens (neither can overlap itself or the other).             *)
(* An image is a natural number naming its pixels; 0 is an object that is   *)
(* not a PIL image.                                                         *)
(***************************************************************************)
EXTENDS Integers, Sequences, FiniteSets

VARIABLES
    pc,                \* "idle", or "parsing" inside call_VLM's loop
    last_op,           \* the operation called last
    err,               \* the exception the last operation raised, or "none"
    current_prompt,    \* GeminiVLM.current_prompt
    inference_frames,  \* GeminiVLM.inference_frames
    teacher_frames,    \* GeminiVLM.teacher_frames
    formatted,         \* history: some format_prompt call has completed
    prompt_args,       \* history: the arguments of the format_prompt call that set current_prompt
    sent_prompt,       \* history: what the last call_VLM passed to generate_content
    response,          \* the lines of response.text read so far by the last call_VLM
    results,           \* call_VLM's local list
    matched,           \* history: for each element of results, the line it came from
    returned,          \* the list the last call_VLM returned
    teacher_examples,  \* ValueGenerator.teacher_examples
    n_samples,         \* ValueGenerator.n_samples
    n_added,           \* history: completed add_teacher_example calls
    video,             \* video_to_frames: the video and n_frames of the last call
    frame_indices,     \* video_to_frames: the positions computed by np.linspace
    frames,            \* video_to_frames: the list returned
    request,           \* prepare_request: the arguments of the last call
    message_parts      \* prepare_request: the list returned

vars == <<pc, last_op, err, current_prompt, inference_frames, teacher_frames,
          formatted, prompt_args, sent_prompt, response, results, matched, returned,
          teacher_examples, n_samples, n_added, video, frame_indices, frames,
          request, message_parts>>

vlmVars == <<pc, current_prompt, inference_frames, teacher_frames,
             formatted, prompt_args, sent_prompt, response, results, matched, returned>>
facadeVars == <<teacher_examples, n_samples, n_added>>
samplerVars == <<video, frame_indices, frames>>
requestVars == <<request, message_parts>>

(***************************************************************************)
(* Bounds.                                                                  *)
(***************************************************************************)
MaxLines == 2       \* lines in one response
MaxFrames == 3      \* inference frames in one format_prompt call
MaxExamples == 2    \* teacher examples
MaxTotalFrames == 7 \* frames in a video
MaxSamples == 5     \* frames asked of video_to_frames

(***************************************************************************)
(* Text helpers: str.split, str.strip, str.rstrip, int(), float().          *)
(***************************************************************************)
MARK == "Task Completion Percentages:"
DESC == "Description:"

Digits == {"0", "1", "2", "3", "4", "5", "9"}

DigitValue(c) ==
    CASE c = "0" -> 0 [] c = "1" -> 1 [] c = "2" -> 2 [] c = "3" -> 3
      [] c = "4" -> 4 [] c = "5" -> 5 [] c = "9" -> 9

Contains(s, tok) == \E i \in 1..Len(s) : s[i] = tok

IndexOf(s, tok) ==
    IF Contains(s, tok)
    THEN CHOOSE i \in 1..Len(s) : s[i] = tok /\ \A j \in 1..(i-1) : s[j] # tok
    ELSE 0

RECURSIVE Split(_, _)
Split(s, sep) ==
    LET i == IndexOf(s, sep)
    IN  IF i = 0 THEN <<s>>
        ELSE <<SubSeq(s, 1, i-1)>> \o Split(SubSeq(s, i+1, Len(s)), sep)

RECURSIVE LStrip(_, _)
LStrip(s, c) == IF s # <<>> /\ s[1] = c THEN LStrip(Tail(s), c) ELSE s

RECURSIVE RStrip(_, _)
RStrip(s, c) ==
    IF s # <<>> /\ s[Len(s)] = c THEN RStrip(SubSeq(s, 1, Len(s)-1), c) ELSE s

\* A strip that forgets the right end.
StripLeading(s) == LStrip(s, " ")

Strip(s) == RStrip(LStrip(s, " "), " ")

Unsigned(s) == IF s # <<>> /\ s[1] \in {"+", "-"} THEN Tail(s) ELSE s

IsDigits(s) == s # <<>> /\ \A i \in 1..Len(s) : s[i] \in Digits

RECURSIVE DigitsValue(_)
DigitsValue(s) ==
    IF s = <<>> THEN 0
    ELSE 10 * DigitsValue(SubSeq(s, 1, Len(s)-1)) + DigitValue(s[Len(s)])

\* int(s) accepts blanks around an optionally signed run of digits.
IsIntLiteral(s) == IsDigits(Unsigned(Strip(s)))

IntValue(s) ==
    LET t == Strip(s)
    IN  IF t[1] = "-" THEN 0 - DigitsValue(Tail(t)) ELSE DigitsValue(Unsigned(t))

\* float(s) accepts what int(s) accepts, and an optionally signed "nan".
IsFloatLiteral(s) ==
    \/ IsDigits(Unsigned(Strip(s)))
    \/ Unsigned(Strip(s)) = <<"nan">>

\* float(s) / 100.0, as [nan, pct]: the number pct/100, or not-a-number.
FloatOver100(s) ==
    IF Unsigned(Strip(s)) = <<"nan">> THEN [nan |-> TRUE, pct |-> 0]
    ELSE [nan |-> FALSE, pct |-> IntValue(s)]

(***************************************************************************)
(* Python list indexing: a negative index counts from the end.              *)
(***************************************************************************)
IndexInRange(list, k) == (0 - Len(list)) <= k /\ k < Len(list)

PyIndex(list, k) == IF k >= 0 THEN list[k + 1] ELSE list[Len(list) + k + 1]

(***************************************************************************)
(* helpers.to_base64 and Prompt.format_prompt.                              *)
(***************************************************************************)
IsImage(x) == x # 0

to_base64(image) == <<"data:image/jpeg;base64,", image>>

to_base64_list(images) == [i \in 1..Len(images) |-> to_base64(images[i])]

NoImage == <<"", 0>>

Part(kind, task, n, img, reminder) ==
    [kind |-> kind, task |-> task, n |-> n, img |-> img, reminder |-> reminder]

NonePrompt == <<Part("None", "", 0, NoImage, FALSE)>>

Falsy(prompt) == prompt = NonePrompt \/ prompt = <<>>

RECURSIVE TeacherLines(_, _)
TeacherLines(teacher_examples_b64, ix) ==
    IF ix > Len(teacher_examples_b64) THEN <<>>
    ELSE LET example == teacher_examples_b64[ix]
         IN  <<Part("Reference Video", "", ix, NoImage, FALSE)>>
             \o [k \in 1..Len(example) |-> Part("Frame", "", ix, example[k], FALSE)]
             \o TeacherLines(teacher_examples_b64, ix + 1)

\* A prompt that lists the inference frames after the inference header.
Prompt_with_inference_video(task, inference_video, teacher_examples_b64) ==
    <<Part("system_and_task_desc_prompt", task, 0, NoImage, FALSE)>>
    \o (IF teacher_examples_b64 # <<>>
        THEN <<Part("teacher_examples_prompt", "", 0, NoImage, FALSE)>>
             \o TeacherLines(teacher_examples_b64, 1)
        ELSE <<>>)
    \o <<Part("inference_video_prompt", task, 0, NoImage, teacher_examples_b64 # <<>>)>>
    \o [k \in 1..Len(inference_video) |-> Part("Frame", "", k, inference_video[k], FALSE)]
    \o <<Part("teacher_reminder_prompt", "", 0, NoImage, FALSE)>>

Prompt_format_prompt(task, inference_video, teacher_examples_b64) ==
    <<Part("system_and_task_desc_prompt", task, 0, NoImage, FALSE)>>
    \o (IF teacher_examples_b64 # <<>>
        THEN <<Part("teacher_examples_prompt", "", 0, NoImage, FALSE)>>
             \o TeacherLines(teacher_examples_b64, 1)
        ELSE <<>>)
    \o <<Part("inference_video_prompt", task, 0, NoImage, teacher_examples_b64 # <<>>)>>
    \o <<Part("teacher_reminder_prompt", "", 0, NoImage, FALSE)>>

(***************************************************************************)
(* GeminiVLM (string path).                                                 *)
(***************************************************************************)
AllImages(images) == \A i \in 1..Len(images) : IsImage(images[i])

\* to_base64 raises on the first object that is not an image.
EncodingRaises(inf, teach) ==
    \/ ~AllImages(inf)
    \/ \E e \in 1..Len(teach) : ~AllImages(teach[e])

FormattedPrompt(task, inf, teach) ==
    Prompt_format_prompt(task, to_base64_list(inf),
                         [e \in 1..Len(teach) |-> to_base64_list(teach[e])])

\* A format_prompt that returns the prompt without keeping it.
FormatPromptUnstored(task, inf, teach) ==
    /\ pc = "idle"
    /\ last_op' = "format_prompt"
    /\ inference_frames' = inf
    /\ teacher_frames' = teach
    /\ IF EncodingRaises(inf, teach)
       THEN /\ err' = "AttributeError"
            /\ UNCHANGED <<formatted, prompt_args>>
       ELSE /\ err' = "none"
            /\ formatted' = TRUE
            /\ prompt_args' = [task_desc |-> task, inference_frames |-> inf,
                               teacher_frames |-> teach]
    /\ response' = <<>>
    /\ results' = <<>>
    /\ matched' = <<>>
    /\ returned' = <<>>
    /\ UNCHANGED <<pc, sent_prompt, current_prompt>>

FormatPrompt(task, inf, teach) ==
    /\ pc = "idle"
    /\ last_op' = "format_prompt"
    /\ inference_frames' = inf
    /\ teacher_frames' = teach
    /\ IF EncodingRaises(inf, teach)
       THEN /\ err' = "AttributeError"
            /\ UNCHANGED <<current_prompt, formatted, prompt_args>>
       ELSE /\ err' = "none"
            /\ current_prompt' = FormattedPrompt(task, inf, teach)
            /\ formatted' = TRUE
            /\ prompt_args' = [task_desc |-> task, inference_frames |-> inf,
                               teacher_frames |-> teach]
    /\ response' = <<>>
    /\ results' = <<>>
    /\ matched' = <<>>
    /\ returned' = <<>>
    /\ UNCHANGED <<pc, sent_prompt>>

\* call_VLM up to the loop: the guard, then the request to the model.
CallVLM ==
    /\ pc = "idle"
    /\ last_op' = "call_VLM"
    /\ response' = <<>>
    /\ results' = <<>>
    /\ matched' = <<>>
    /\ returned' = <<>>
    /\ IF Falsy(current_prompt)
       THEN /\ err' = "ValueError"
            /\ sent_prompt' = NonePrompt
            /\ pc' = "idle"
       ELSE /\ err' = "none"
            /\ sent_prompt' = current_prompt
            /\ pc' = "parsing"
    /\ UNCHANGED <<current_prompt, inference_frames, teacher_frames, formatted,
                   prompt_args>>

Raise(exc) == [exc |-> exc, frame_no |-> 0, frame |-> 0, description |-> <<>>,
               value |-> [nan |-> FALSE, pct |-> 0]]

\* The body of the try block for one line holding the marker phrase.
LineOutcome(line, frame_list) ==
    LET a == Split(line, "[")
    IN  IF Len(a) < 2 THEN Raise("IndexError")
        ELSE
        LET ix_text == Split(a[2], "]")[1]
        IN  IF ~IsIntLiteral(ix_text) THEN Raise("ValueError")
            ELSE
            LET frame_num == IntValue(ix_text)
                b == Split(line, DESC)
            IN  IF Len(b) < 2 THEN Raise("IndexError")
                ELSE
                LET description == Strip(Split(b[2], MARK)[1])
                    value_str == Strip(Split(line, MARK)[2])
                    number == RStrip(value_str, "%")
                IN  IF ~IsFloatLiteral(number) THEN Raise("ValueError")
                    ELSE IF ~IndexInRange(frame_list, frame_num - 1)
                    THEN Raise("IndexError")
                    ELSE [exc |-> "none",
                          frame_no |-> frame_num,
                          frame |-> PyIndex(frame_list, frame_num - 1),
                          description |-> description,
                          value |-> FloatOver100(number)]

\* A handler that names ValueError alone.
CaughtValueErrorOnly(exc) == exc = "ValueError"

\* except (ValueError, IndexError): continue
Caught(exc) == exc \in {"ValueError", "IndexError"}

\* A list that grows at the front.
ListPrepend(list, x) == <<x>> \o list

\* list.append
ListAppend(list, x) == Append(list, x)

VLMOutput(o) == [frame_no |-> o.frame_no, frame |-> o.frame,
                 description |-> o.description, value |-> o.value]

\* One iteration of call_VLM's loop over response.text.split("\n").
ParseLine(line) ==
    /\ pc = "parsing"
    /\ Len(response) < MaxLines
    /\ response' = Append(response, line)
    /\ IF ~Contains(line, MARK)
       THEN UNCHANGED <<results, matched, err, pc>>
       ELSE LET o == LineOutcome(line, inference_frames)
            IN  IF o.exc = "none"
                THEN /\ results' = ListAppend(results, VLMOutput(o))
                     /\ matched' = Append(matched, Len(response) + 1)
                     /\ UNCHANGED <<err, pc>>
                ELSE IF Caught(o.exc)
                THEN UNCHANGED <<results, matched, err, pc>>
                ELSE /\ err' = o.exc
                     /\ pc' = "idle"
                     /\ UNCHANGED <<results, matched>>
    /\ UNCHANGED <<last_op, current_prompt, inference_frames, teacher_frames,
                   formatted, prompt_args, sent_prompt, returned>>

\* return results (str.split yields at least one line).
Return ==
    /\ pc = "parsing"
    /\ Len(response) >= 1
    /\ pc' = "idle"
    /\ returned' = results
    /\ UNCHANGED <<last_op, err, current_prompt, inference_frames, teacher_frames,
                   formatted, prompt_args, sent_prompt, response, results, matched>>

(***************************************************************************)
(* The responses the model may give: the line of the prompt's format with   *)
(* each field varied, and lines that break the format.                      *)
(***************************************************************************)
StdLine(ix, desc, pct) ==
    <<"Frame:", " ", "[">> \o ix \o <<"]", " ", DESC, " ">> \o desc \o <<MARK>> \o pct

LineC1 == StdLine(<<"2">>, <<"[", "moving", " ", "arm", "]", ":", " ">>, <<"4", "5", "%">>)

IndexTexts ==
    {<<"1">>, <<"2">>, <<"3">>, <<"0">>, <<"-", "1">>, <<"-", "9">>, <<"9">>,
     <<" ", "1", " ">>, <<"+", "2">>, <<"x">>, <<>>, <<"1", " ", "2">>, <<"1", "2">>}

PctTexts ==
    {<<"4", "5", "%">>, <<"1", "5", "0", "%">>, <<"-", "1", "0", "%">>,
     <<"abc", "%">>, <<"4", "5">>, <<"4", "5", " ", "%", "%">>, <<"nan", "%">>,
     <<>>, <<" ", "1", "0", "0", "%">>, <<"0", "%">>, <<"[", "]", "%">>,
     <<"%", "4", "5">>, <<"4", "5", "%", " ", "x">>}

DescX == <<"x", " ">>
Pct10 == <<"1", "0", "%">>

OddLines ==
    { <<>>,
      <<"abc">>,
      \* no marker phrase
      <<"Frame:", " ", "[", "1", "]", " ", DESC, " ", "x", " ", "1", "0", "%">>,
      \* no "["
      <<"Frame:", " ", "1", "]", " ", DESC, " ", "x", " ", MARK, "1", "0", "%">>,
      \* no "]"
      <<"Frame:", " ", "[", "1", " ", DESC, " ", "x", " ", MARK, "1", "0", "%">>,
      \* no "]", the index text at the end of the line, after a second marker
      <<DESC, " ", "x", " ", MARK, "5", "0", "%", MARK, "[", "1">>,
      \* no "Description:"
      <<"Frame:", " ", "[", "1", "]", " ", "x", " ", MARK, "1", "0", "%">>,
      \* "Description:" after the marker
      <<"Frame:", " ", "[", "1", "]", " ", MARK, "1", "0", "%", " ", DESC, " ", "x">>,
      \* the second example line of the prompt
      <<"Frame:", " ", "[", "2", "]", " ", "Frame", " ", DESC, " ", "x", ":", " ",
        MARK, "2", "0", "%">> }

Lines ==
    {LineC1}
    \cup {StdLine(ix, DescX, Pct10) : ix \in IndexTexts}
    \cup {StdLine(<<"1">>, DescX, pct) : pct \in PctTexts}
    \cup OddLines

Task1 == "pick up the cube"

FrameList(n) == [i \in 1..n |-> i]

Init ==
    /\ pc = "idle"
    /\ last_op = "init"
    /\ err = "none"
    /\ current_prompt = NonePrompt
    /\ inference_frames = <<>>
    /\ teacher_frames = <<>>
    /\ formatted = FALSE
    /\ prompt_args = [task_desc |-> "", inference_frames |-> <<>>, teacher_frames |-> <<>>]
    /\ sent_prompt = NonePrompt
    /\ response = <<>>
    /\ results = <<>>
    /\ matched = <<>>
    /\ returned = <<>>
    /\ teacher_examples = <<>>
    /\ n_samples = 0
    /\ n_added = 0
    /\ video = [id |-> 0, total_frames |-> 0, n_frames |-> 0, readable |-> {}]
    /\ frame_indices = <<>>
    /\ frames = <<>>
    /\ request = [provider |-> "", task_desc |-> "", inference_frames |-> <<>>,
                  teacher_examples |-> <<>>]
    /\ message_parts = <<>>

Next ==
    \/ \E n \in 0..MaxFrames :
          FormatPrompt(Task1, FrameList(n), <<>>)
          /\ UNCHANGED <<facadeVars, samplerVars, requestVars>>
    \/ CallVLM /\ UNCHANGED <<facadeVars, samplerVars, requestVars>>
    \/ \E line \in Lines :
          ParseLine(line) /\ UNCHANGED <<facadeVars, samplerVars, requestVars>>
    \/ Return /\ UNCHANGED <<facadeVars, samplerVars, requestVars>>

Spec == Init /\ [][Next]_vars

(***************************************************************************)
(* Properties of the response parser, checked under Spec.                   *)
(***************************************************************************)
\* call_VLM has returned or raised after a prompt was formatted.
CallEnded == pc = "idle" /\ last_op = "call_VLM" /\ ~Falsy(current_prompt)

\* call_VLM has returned its list.
CallReturned == CallEnded /\ err = "none"

Range(seq) == {seq[i] : i \in 1..Len(seq)}

Number(pct) == [nan |-> FALSE, pct |-> pct]

C1_Case == CallReturned /\ response = <<LineC1>> /\ Len(inference_frames) >= 2

C1_Record(description) ==
    [frame_no |-> 2, frame |-> inference_frames[2],
     description |-> description, value |-> Number(45)]

\* C1 as stated: the response 'Frame: [2] Description: [moving arm]: Task
\* Completion Percentages:45%' yields one record with frame_no 2, description
\* '[moving arm]' and value 45/100.
C1_Original ==
    C1_Case => returned = <<C1_Record(<<"[", "moving", " ", "arm", "]">>)>>

\* C1 amended: the same response yields one record with frame_no 2, the 2nd
\* inference frame, value 45/100 and description '[moving arm]:', the text
\* between 'Description:' and the marker with its trailing colon kept.
C1_Amended ==
    C1_Case => returned = <<C1_Record(<<"[", "moving", " ", "arm", "]", ":">>)>>

C1_Witness == C1_Case /\ Len(returned) = 1 /\ returned[1].frame_no = 2

\* A line of the prompt's format whose index is a number above n.
OutOfRangeLine(line, n) ==
    \E ix \in IndexTexts :
        /\ IsDigits(ix)
        /\ DigitsValue(ix) > n
        /\ line = StdLine(ix, DescX, Pct10)

C2_Case ==
    /\ CallEnded
    /\ \E i \in 1..Len(response) : OutOfRangeLine(response[i], Len(inference_frames))

\* C2 as stated: a well-formed marker line whose frame index is above the
\* number of inference frames makes call_VLM fail with the lookup error.
C2_Original == C2_Case => err = "IndexError"

\* C2 amended: such a line is skipped: the lookup error is caught, call_VLM
\* returns normally and no record comes from that line.
C2_Amended ==
    C2_Case =>
        /\ err = "none"
        /\ returned = results
        /\ \A i \in 1..Len(response) :
              OutOfRangeLine(response[i], Len(inference_frames)) => i \notin Range(matched)

C2_Witness == C2_Case /\ Len(response) = 2 /\ Len(returned) = 1 /\ matched = <<2>>

\* C3: every record call_VLM returns has a value in [0,1]; a line whose
\* percentage is outside 0..100 gives no record.
C3_Claim ==
    CallReturned =>
        \A k \in 1..Len(returned) :
            /\ ~returned[k].value.nan
            /\ 0 <= returned[k].value.pct
            /\ returned[k].value.pct <= 100

\* C4: every record call_VLM returns has 1 <= frame_no <= N and holds the
\* frame_no-th inference frame; index 0 or a negative index gives no record.
C4_Claim ==
    CallReturned =>
        \A k \in 1..Len(returned) :
            /\ 1 <= returned[k].frame_no
            /\ returned[k].frame_no <= Len(inference_frames)
            /\ returned[k].frame = inference_frames[returned[k].frame_no]

NoMarker(line) == ~Contains(line, MARK)
NoOpen(line) == ~Contains(line, "[")
NoClose(line) == ~Contains(line, "]")
NoLabel(line) == ~Contains(line, DESC)

\* The text after the first marker phrase, up to the next one or the line's end.
PctText(line) ==
    LET from == IndexOf(line, MARK) + 1
        rest == SubSeq(line, from, Len(line))
        stop == IndexOf(rest, MARK)
    IN  IF stop = 0 THEN rest ELSE SubSeq(rest, 1, stop - 1)

\* That text holds something no number is written with.
NonNumericPct(line) ==
    /\ Contains(line, MARK)
    /\ \E i \in 1..Len(PctText(line)) :
          PctText(line)[i] \notin Digits \cup {"+", "-", " ", "%", "nan"}

NumText(k) == CASE k = 1 -> <<"1">> [] k = 2 -> <<"2">> [] k = 3 -> <<"3">>
                [] k = 4 -> <<"4">> [] k = 5 -> <<"5">> [] OTHER -> <<"9">>

GoodPcts == {[text |-> <<"1", "0", "%">>, pct |-> 10],
             [text |-> <<"4", "5", "%">>, pct |-> 45],
             [text |-> <<"0", "%">>, pct |-> 0]}

\* The lines of a response are read in order and each gives at most one record.
InLineOrder ==
    /\ Len(returned) = Len(matched)
    /\ \A j \in 1..Len(matched) : matched[j] \in 1..Len(response)
    /\ \A j \in 1..(Len(matched) - 1) : matched[j] < matched[j + 1]

\* Every well-formed line with its index in 1..N gives its record.
WellFormedKept ==
    \A i \in 1..Len(response) :
        \A k \in 1..Len(inference_frames) : \A p \in GoodPcts :
            (k <= 5 /\ response[i] = StdLine(NumText(k), DescX, p.text)) =>
                \E j \in 1..Len(matched) :
                    /\ matched[j] = i
                    /\ returned[j] = [frame_no |-> k, frame |-> inference_frames[k],
                                      description |-> <<"x">>, value |-> Number(p.pct)]

\* C5 as stated: no line content makes call_VLM raise; a line without the
\* marker, a marker line without '[' or without ']', without 'Description:',
\* or with a non-numeric percentage gives no record; every well-formed line
\* still gives its record, in line order.
C5_Original ==
    CallEnded =>
        /\ err = "none"
        /\ InLineOrder
        /\ WellFormedKept
        /\ \A i \in 1..Len(response) :
              (\/ NoMarker(response[i]) \/ NoOpen(response[i]) \/ NoClose(response[i])
               \/ NoLabel(response[i]) \/ NonNumericPct(response[i]))
                  => i \notin Range(matched)

\* C5 amended: the same, except that a missing ']' alone does not skip a
\* line: a marker line without '[', without 'Description:' or with a
\* percentage text that is no number gives no record.
C5_Amended ==
    CallEnded =>
        /\ err = "none"
        /\ InLineOrder
        /\ WellFormedKept
        /\ \A i \in 1..Len(response) :
              (\/ NoMarker(response[i]) \/ NoOpen(response[i])
               \/ NoLabel(response[i]) \/ NonNumericPct(response[i]))
                  => i \notin Range(matched)

C5_Witness ==
    /\ CallReturned
    /\ Len(response) = 2
    /\ NonNumericPct(response[1])
    /\ response[2] = StdLine(<<"2">>, DescX, Pct10)
    /\ matched = <<2>>
    /\ Len(returned) = 1


(***************************************************************************)
(* The string path with varied format_prompt arguments: a blank task, no    *)
(* frames, teacher examples, and lists holding an object that is no image   *)
(* (to_base64 raises on it).  Inference images are 1 and 2, teacher images  *)
(* 11 and 12.                                                               *)
(***************************************************************************)
PromptTasks == {"", Task1}

PromptInferenceLists == {<<>>, <<1>>, <<1, 2>>, <<2, 1>>, <<1, 0>>}

PromptTeacherLists ==
    {<<>>, << <<>> >>, << <<11>> >>, << <<11, 12>>, <<12>> >>, << <<11, 0>> >>}

PromptLines == {LineC1, <<"abc">>}

NextPrompt ==
    \/ \E task \in PromptTasks, inf \in PromptInferenceLists, teach \in PromptTeacherLists :
          FormatPrompt(task, inf, teach)
          /\ UNCHANGED <<facadeVars, samplerVars, requestVars>>
    \/ CallVLM /\ UNCHANGED <<facadeVars, samplerVars, requestVars>>
    \/ \E line \in PromptLines :
          ParseLine(line) /\ UNCHANGED <<facadeVars, samplerVars, requestVars>>
    \/ Return /\ UNCHANGED <<facadeVars, samplerVars, requestVars>>

SpecPrompt == Init /\ [][NextPrompt]_vars

\* C7: a call_VLM issued before any format_prompt has completed raises
\* ValueError and sends nothing to the model; a call_VLM issued after a
\* completed format_prompt never raises it and sends the current prompt,
\* whatever the arguments of format_prompt were.
C7_PromptBeforeCall ==
    last_op = "call_VLM" =>
        /\ (err = "ValueError") <=> ~formatted
        /\ ~formatted => (sent_prompt = NonePrompt /\ pc = "idle" /\ response = <<>>)
        /\ formatted => (sent_prompt = current_prompt /\ ~Falsy(sent_prompt))

C7_Witness ==
    /\ last_op = "call_VLM"
    /\ formatted
    /\ err = "none"
    /\ pc = "parsing"
    /\ prompt_args.task_desc = ""
    /\ prompt_args.inference_frames = <<>>
    /\ prompt_args.teacher_frames = <<>>

ImageAt(v, p) == 10 * v + p + 1

PositionOf(v, image) == image - 10 * v - 1

\* Rounding towards zero, b > 0.
Trunc(a, b) == IF a >= 0 THEN a \div b ELSE 0 - ((0 - a) \div b)

\* np.arange-like spacing: item i is i * total_frames / n, no end point.
LinspaceItemNoEndpoint(delta, div, i) == {Trunc(i * (delta + 1), div + 1)}

\* The values item i (from 0) of np.linspace(0, delta, div + 1, dtype=int) can
\* take.  The last item is set to the stop value.  The others are i * step
\* made an integer: when i * delta / div is a whole number and the float
\* step = delta / div is inexact, the float product may fall just below it
\* (first seen at total_frames = 31); a negative value is floored or
\* truncated, depending on the numpy release.
LinspaceItem(delta, div, i) ==
    LET q == Trunc(i * delta, div)
    IN  IF i = div THEN {delta}
        ELSE IF delta < 0 THEN {q, (i * delta) \div div}
        ELSE IF i > 0 /\ (i * delta) % div = 0 /\ delta % div # 0 THEN {q, q - 1}
        ELSE {q}

RECURSIVE LinspacePrefixes(_, _, _)
LinspacePrefixes(delta, div, k) ==
    IF k = 0 THEN {<<>>}
    ELSE {Append(a, x) : a \in LinspacePrefixes(delta, div, k - 1),
                         x \in LinspaceItem(delta, div, k - 1)}

\* np.linspace(0, total_frames - 1, n, dtype=int): the arrays it can give.
Linspace(total, n) ==
    IF n = 0 THEN {<<>>}
    ELSE IF n = 1 THEN {<<0>>}
    ELSE LinspacePrefixes(total - 1, n - 1, n)

\* The frames read at the positions idx: a failed read is skipped.
ReadFrames(v, total, idx, readable) ==
    LET Ok(p) == p \in readable /\ 0 <= p /\ p < total
        kept == SelectSeq(idx, Ok)
    IN  [i \in 1..Len(kept) |-> ImageAt(v, kept[i])]

VideoToFrames(v, total, n, idx, readable) ==
    /\ pc = "idle"
    /\ idx \in Linspace(total, n)
    /\ readable \subseteq 0..(total - 1)
    /\ last_op' = "video_to_frames"
    /\ err' = "none"
    /\ video' = [id |-> v, total_frames |-> total, n_frames |-> n, readable |-> readable]
    /\ frame_indices' = idx
    /\ frames' = ReadFrames(v, total, idx, readable)

\* The function is applied once to arguments drawn at the start: a video of
\* up to MaxTotalFrames frames, some of them unreadable, and a frame count.
InitSampler ==
    /\ pc = "idle"
    /\ last_op = "init"
    /\ err = "none"
    /\ current_prompt = NonePrompt
    /\ inference_frames = <<>>
    /\ teacher_frames = <<>>
    /\ formatted = FALSE
    /\ prompt_args = [task_desc |-> "", inference_frames |-> <<>>, teacher_frames |-> <<>>]
    /\ sent_prompt = NonePrompt
    /\ response = <<>>
    /\ results = <<>>
    /\ matched = <<>>
    /\ returned = <<>>
    /\ teacher_examples = <<>>
    /\ n_samples = 0
    /\ n_added = 0
    /\ \E total \in 0..MaxTotalFrames, n \in 0..MaxSamples :
          \E readable \in SUBSET (0..(total - 1)) :
              video = [id |-> 0, total_frames |-> total, n_frames |-> n,
                       readable |-> readable]
    /\ frame_indices = <<>>
    /\ frames = <<>>
    /\ request = [provider |-> "", task_desc |-> "", inference_frames |-> <<>>,
                  teacher_examples |-> <<>>]
    /\ message_parts = <<>>

NextSampler ==
    /\ last_op = "init"
    /\ \E idx \in Linspace(video.total_frames, video.n_frames) :
          VideoToFrames(video.id, video.total_frames, video.n_frames, idx, video.readable)
    /\ UNCHANGED <<vlmVars, facadeVars, requestVars>>

SpecSampler == InitSampler /\ [][NextSampler]_vars

StrictlyIncreasing(seq) == \A i \in 1..(Len(seq) - 1) : seq[i] < seq[i + 1]

C8_Case ==
    /\ last_op = "video_to_frames"
    /\ 1 <= video.n_frames
    /\ video.n_frames <= video.total_frames

\* What the frames returned are: at most n, each read at one of the computed
\* positions, in increasing position order.
C8_FramesInOrder ==
    LET pos == [i \in 1..Len(frames) |-> PositionOf(video.id, frames[i])]
    IN  /\ Len(frames) <= video.n_frames
        /\ StrictlyIncreasing(pos)
        /\ \A i \in 1..Len(pos) : pos[i] \in Range(frame_indices) /\ pos[i] \in video.readable
        /\ \A j \in 1..Len(frame_indices) :
              frame_indices[j] \in video.readable => frame_indices[j] \in Range(pos)

\* C8 as stated: for 1 <= n <= F the positions are strictly increasing, the
\* first is 0 and the last is F-1, and the frames returned are at most n, in
\* position order.
C8_Original ==
    C8_Case =>
        /\ Len(frame_indices) = video.n_frames
        /\ StrictlyIncreasing(frame_indices)
        /\ frame_indices[1] = 0
        /\ frame_indices[Len(frame_indices)] = video.total_frames - 1
        /\ C8_FramesInOrder

\* C8 amended: the last position is F-1 when n >= 2; for n = 1 the only
\* position is 0, whatever F is.
C8_Amended ==
    C8_Case =>
        /\ Len(frame_indices) = video.n_frames
        /\ StrictlyIncreasing(frame_indices)
        /\ frame_indices[1] = 0
        /\ video.n_frames >= 2 =>
              frame_indices[Len(frame_indices)] = video.total_frames - 1
        /\ video.n_frames = 1 => frame_indices = <<0>>
        /\ C8_FramesInOrder

C8_Witness ==
    /\ C8_Case
    /\ video.n_frames = 3
    /\ video.total_frames = 5
    /\ frame_indices = <<0, 2, 4>>
    /\ frames = <<ImageAt(0, 0), ImageAt(0, 4)>>

(***************************************************************************)
(* ValueGenerator.  Its vlm is the string-path GeminiVLM above;             *)
(* generate_value runs video_to_frames, format_prompt and call_VLM up to    *)
(* the parsing loop, which ParseLine and Return carry on.                   *)
(* vlm.teacher_frames is the list object teacher_examples itself.           *)
(***************************************************************************)
\* An add_teacher_example that keeps only the newest example.
AddTeacherExampleReplacing(v, total, idx, readable) ==
    /\ pc = "idle"
    /\ Len(teacher_examples) < MaxExamples
    /\ idx \in Linspace(total, n_samples)
    /\ readable \subseteq 0..(total - 1)
    /\ last_op' = "add_teacher_example"
    /\ err' = "none"
    /\ video' = [id |-> v, total_frames |-> total, n_frames |-> n_samples,
                 readable |-> readable]
    /\ frame_indices' = idx
    /\ frames' = ReadFrames(v, total, idx, readable)
    /\ teacher_examples' = <<frames'>>
    /\ n_added' = n_added + 1
    /\ teacher_frames' = IF formatted THEN teacher_examples' ELSE teacher_frames
    /\ UNCHANGED <<pc, current_prompt, inference_frames, formatted, prompt_args,
                   sent_prompt, response, results, matched, returned, n_samples>>

AddTeacherExample(v, total, idx, readable) ==
    /\ pc = "idle"
    /\ Len(teacher_examples) < MaxExamples
    /\ idx \in Linspace(total, n_samples)
    /\ readable \subseteq 0..(total - 1)
    /\ last_op' = "add_teacher_example"
    /\ err' = "none"
    /\ video' = [id |-> v, total_frames |-> total, n_frames |-> n_samples,
                 readable |-> readable]
    /\ frame_indices' = idx
    /\ frames' = ReadFrames(v, total, idx, readable)
    /\ teacher_examples' = Append(teacher_examples, frames')
    /\ n_added' = n_added + 1
    /\ teacher_frames' = IF formatted THEN teacher_examples' ELSE teacher_frames
    /\ UNCHANGED <<pc, current_prompt, inference_frames, formatted, prompt_args,
                   sent_prompt, response, results, matched, returned, n_samples>>

GenerateValue(task, v, total, idx, readable) ==
    /\ pc = "idle"
    /\ idx \in Linspace(total, n_samples)
    /\ readable \subseteq 0..(total - 1)
    /\ last_op' = "generate_value"
    /\ err' = "none"
    /\ video' = [id |-> v, total_frames |-> total, n_frames |-> n_samples,
                 readable |-> readable]
    /\ frame_indices' = idx
    /\ frames' = ReadFrames(v, total, idx, readable)
    \* vlm.format_prompt: the frames read are images, to_base64 does not raise
    /\ inference_frames' = frames'
    /\ teacher_frames' = teacher_examples
    /\ current_prompt' = FormattedPrompt(task, frames', teacher_examples)
    /\ formatted' = TRUE
    /\ prompt_args' = [task_desc |-> task, inference_frames |-> frames',
                       teacher_frames |-> teacher_examples]
    \* vlm.call_VLM: the prompt is set
    /\ sent_prompt' = current_prompt'
    /\ response' = <<>>
    /\ results' = <<>>
    /\ matched' = <<>>
    /\ returned' = <<>>
    /\ pc' = "parsing"
    /\ UNCHANGED <<teacher_examples, n_samples, n_added>>

FacadeVideos == {[id |-> 1, total_frames |-> 3], [id |-> 2, total_frames |-> 1],
                 [id |-> 3, total_frames |-> 0]}

InitFacade ==
    /\ pc = "idle"
    /\ last_op = "init"
    /\ err = "none"
    /\ current_prompt = NonePrompt
    /\ inference_frames = <<>>
    /\ teacher_frames = <<>>
    /\ formatted = FALSE
    /\ prompt_args = [task_desc |-> "", inference_frames |-> <<>>, teacher_frames |-> <<>>]
    /\ sent_prompt = NonePrompt
    /\ response = <<>>
    /\ results = <<>>
    /\ matched = <<>>
    /\ returned = <<>>
    /\ teacher_examples = <<>>
    /\ n_samples \in 1..2
    /\ n_added = 0
    /\ video = [id |-> 0, total_frames |-> 0, n_frames |-> 0, readable |-> {}]
    /\ frame_indices = <<>>
    /\ frames = <<>>
    /\ request = [provider |-> "", task_desc |-> "", inference_frames |-> <<>>,
                  teacher_examples |-> <<>>]
    /\ message_parts = <<>>

NextFacade ==
    \/ \E vid \in FacadeVideos :
          \E idx \in Linspace(vid.total_frames, n_samples),
             readable \in SUBSET (0..(vid.total_frames - 1)) :
              AddTeacherExample(vid.id, vid.total_frames, idx, readable)
              /\ UNCHANGED requestVars
    \/ \E vid \in FacadeVideos :
          \E idx \in Linspace(vid.total_frames, n_samples),
             readable \in SUBSET (0..(vid.total_frames - 1)) :
              GenerateValue(Task1, vid.id, vid.total_frames, idx, readable)
              /\ UNCHANGED requestVars
    \/ \E line \in PromptLines :
          ParseLine(line) /\ UNCHANGED <<facadeVars, samplerVars, requestVars>>
    \/ Return /\ UNCHANGED <<facadeVars, samplerVars, requestVars>>

SpecFacade == InitFacade /\ [][NextFacade]_vars

\* C9: the teacher example collection is append-only: a completed
\* add_teacher_example appends exactly one frame set at the end and leaves
\* the earlier entries in place, every other step (generate_value and its
\* parsing) leaves the collection unchanged, and after k completed
\* add_teacher_example calls it holds k frame sets.
C9_AppendOnly ==
    [][ /\ Len(teacher_examples') = n_added'
        /\ n_added' = n_added => teacher_examples' = teacher_examples
        /\ n_added' # n_added =>
              /\ n_added' = n_added + 1
              /\ Len(teacher_examples') = Len(teacher_examples) + 1
              /\ SubSeq(teacher_examples', 1, Len(teacher_examples)) = teacher_examples
              /\ teacher_examples'[Len(teacher_examples')] = frames'
      ]_vars

C9_Witness ==
    /\ n_added = 2
    /\ Len(teacher_examples) = 2
    /\ teacher_examples[1] # teacher_examples[2]
    /\ teacher_examples[1] # <<>>
    /\ last_op = "generate_value"
    /\ pc = "idle"
    /\ prompt_args.teacher_frames = teacher_examples
    /\ teacher_frames = teacher_examples
    /\ returned # <<>>

(***************************************************************************)
(* BaseVLM.prepare_request (message-list path), with create_message_part    *)
(* of GeminiVLM and ClaudeVLM.  An ImageData is named by its image.         *)
(***************************************************************************)
MessagePart(format, kind, task, n, image) ==
    [format |-> format, kind |-> kind, task |-> task, n |-> n, image |-> image]

\* create_message_part of a str.
TextPart(provider, kind, task, n) ==
    MessagePart(IF provider = "gemini" THEN "str" ELSE "claude text", kind, task, n, 0)

\* create_message_part of an ImageData.
ImagePart(provider, image) ==
    MessagePart(IF provider = "gemini" THEN "PIL.Image" ELSE "claude image base64",
                "image", "", 0, image)

\* f"Frame: {ix + 1}", appended as it is, then the frame's part.
FrameParts(provider, example) ==
    [j \in 1..(2 * Len(example)) |->
        IF j % 2 = 1 THEN MessagePart("str", "frame label", "", (j + 1) \div 2, 0)
        ELSE ImagePart(provider, example[j \div 2])]

RECURSIVE TeacherParts(_, _, _)
TeacherParts(provider, teach, idx) ==
    IF idx > Len(teach) THEN <<>>
    ELSE <<TextPart(provider, "teacher_header", "", idx)>>
         \o FrameParts(provider, teach[idx])
         \o TeacherParts(provider, teach, idx + 1)

\* A prepare_request that leaves out the "Reference Video" headers.
RECURSIVE TeacherPartsNoHeader(_, _, _)
TeacherPartsNoHeader(provider, teach, idx) ==
    IF idx > Len(teach) THEN <<>>
    ELSE FrameParts(provider, teach[idx]) \o TeacherPartsNoHeader(provider, teach, idx + 1)

RequestPartsNoHeader(provider, task, inf, teach) ==
    <<TextPart(provider, "introduction", task, 0)>>
    \o TeacherPartsNoHeader(provider, teach, 1)
    \o <<TextPart(provider, "inference_header", task, 0)>>
    \o FrameParts(provider, inf)

RequestParts(provider, task, inf, teach) ==
    <<TextPart(provider, "introduction", task, 0)>>
    \o (IF teach # <<>> THEN TeacherParts(provider, teach, 1) ELSE <<>>)
    \o <<TextPart(provider, "inference_header", task, 0)>>
    \o FrameParts(provider, inf)

\* task_desc.strip() is empty
BlankTasks == {"", "   "}

PrepareRequest(provider, task, inf, teach) ==
    /\ pc = "idle"
    /\ last_op' = "prepare_request"
    /\ request' = [provider |-> provider, task_desc |-> task, inference_frames |-> inf,
                   teacher_examples |-> teach]
    /\ IF task \in BlankTasks \/ inf = <<>>
       THEN /\ err' = "ValueError"
            /\ message_parts' = <<>>
       ELSE /\ err' = "none"
            /\ message_parts' = RequestParts(provider, task, inf, teach)

RECURSIVE ExampleLists(_)
ExampleLists(k) ==
    IF k = 0 THEN {<<>>}
    ELSE ExampleLists(k - 1)
         \cup {Append(t, FrameList(n)) : t \in {u \in ExampleLists(k - 1) : Len(u) = k - 1},
                                         n \in 0..MaxFrames}

\* The function is applied once to arguments drawn at the start.
InitRequest ==
    /\ pc = "idle"
    /\ last_op = "init"
    /\ err = "none"
    /\ current_prompt = NonePrompt
    /\ inference_frames = <<>>
    /\ teacher_frames = <<>>
    /\ formatted = FALSE
    /\ prompt_args = [task_desc |-> "", inference_frames |-> <<>>, teacher_frames |-> <<>>]
    /\ sent_prompt = NonePrompt
    /\ response = <<>>
    /\ results = <<>>
    /\ matched = <<>>
    /\ returned = <<>>
    /\ teacher_examples = <<>>
    /\ n_samples = 0
    /\ n_added = 0
    /\ video = [id |-> 0, total_frames |-> 0, n_frames |-> 0, readable |-> {}]
    /\ frame_indices = <<>>
    /\ frames = <<>>
    /\ \E provider \in {"gemini", "claude"}, task \in BlankTasks \cup {Task1},
          n \in 0..MaxFrames, teach \in ExampleLists(MaxExamples) :
          request = [provider |-> provider, task_desc |-> task,
                     inference_frames |-> FrameList(n), teacher_examples |-> teach]
    /\ message_parts = <<>>

NextRequest ==
    /\ last_op = "init"
    /\ PrepareRequest(request.provider, request.task_desc, request.inference_frames,
                      request.teacher_examples)
    /\ UNCHANGED <<vlmVars, facadeVars, samplerVars>>

SpecRequest == InitRequest /\ [][NextRequest]_vars

RECURSIVE TotalFrames(_)
TotalFrames(teach) ==
    IF teach = <<>> THEN 0 ELSE Len(Head(teach)) + TotalFrames(Tail(teach))

C6_Case ==
    /\ last_op = "prepare_request"
    /\ request.task_desc \notin BlankTasks
    /\ Len(request.inference_frames) >= 1

\* C6 as stated: the message list has length 1 + 2*(T + E) + 1 + 2*I, for E
\* teacher examples with T frames in total and I inference frames.
C6_Original ==
    C6_Case =>
        /\ err = "none"
        /\ Len(message_parts) =
              1 + 2 * (TotalFrames(request.teacher_examples) + Len(request.teacher_examples))
                + 1 + 2 * Len(request.inference_frames)

\* C6 amended: the length is 1 + (E + 2*T) + 1 + 2*I: one header part for
\* each teacher example, not two.
C6_Amended ==
    C6_Case =>
        /\ err = "none"
        /\ Len(message_parts) =
              1 + (Len(request.teacher_examples) + 2 * TotalFrames(request.teacher_examples))
                + 1 + 2 * Len(request.inference_frames)

C6_Witness ==
    /\ C6_Case
    /\ request.provider = "claude"
    /\ request.teacher_examples = <<FrameList(2), FrameList(1)>>
    /\ Len(request.inference_frames) = 2
    /\ Len(message_parts) = 14

=============================================================================
